---- MODULE Spec2Model ----
(***************************************************************************)
(* Layered CRUD backend over a hosted relational store.                    *)
(*                                                                         *)
(*   chati.py       Persona entity, use cases and SupabasePersonaRepository*)
(*   chati2.py      SupabaseGenericRepository and GenericCRUDUseCase       *)
(*   generic_crud.py  table-parameterised adapter (insert/get/update/...)  *)
(*                                                                         *)
(* The store is the external collaborator: a table is a sequence of rows   *)
(* in the store's own order, and the query-builder calls the code makes    *)
(* (eq, gt, ..., range, order, insert, update, delete) are the Store*      *)
(* operators below.                                                        *)
(***************************************************************************)
EXTENDS Integers, Sequences, FiniteSets, TLC

VARIABLES
    tabla,      \* the table: a sequence of rows in the store's order
    nextId,     \* the identifier the store assigns to the next inserted row
    reloj,      \* datetime.utcnow() as seen by generic_crud
    clientes,   \* store clients: lru_cache's entry, clients built, calls made
    pc,         \* per request: where its use-case call stands
    loc,        \* per request: the call in flight and its locals
    fin,        \* how the use-case call that completed in the last step ended
    ultimo      \* the last repository-level call and what it returned

vars == <<tabla, nextId, reloj, clientes, pc, loc, fin, ultimo>>

(***************************************************************************)
(* Bounds                                                                  *)
(***************************************************************************)
MaxId == 3          \* identifiers the store hands out to repository-level calls
MaxPersonas == 2    \* use-case calls address ids 1..MaxPersonas; creates stop one id later
MaxReloj == 1       \* clock readings 0..MaxReloj
MaxSkip == 3        \* skip / offset drawn from 0..MaxSkip
MaxFilas == 1       \* rows inserted while the clock runs
MaxLimit == 2       \* limit drawn from 1..MaxLimit (and the default)
MaxCalls == 4       \* get_supabase_client calls in one process

None == "None"      \* Python None / SQL NULL in a text column
NoTime == -1        \* SQL NULL in a fecha_* column (a clock reading otherwise)
StoreTs == "ts"     \* a timestamp the store itself assigns (opaque to the code)

(***************************************************************************)
(* Values                                                                  *)
(***************************************************************************)
\* Text that is pattern-matched is a sequence of characters.
Ana == <<"A", "n">>
ana == <<"a", "n">>
Al  == <<"a", "l">>

Columns == {"id", "nombre", "apellido", "email", "edad", "telefono",
            "created_at", "updated_at", "estado", "fecha_creado", "fecha_edit"}
BusinessFields == {"nombre", "apellido", "email", "edad", "telefono"}
IntColumns == {"id", "edad"}
TimeColumns == {"fecha_creado", "fecha_edit"}

\* PersonaCreateDTO instances the requests carry (chati.py 71-77).
CreateDTOs ==
    { [nombre |-> Ana, apellido |-> "Paz",  email |-> "a@x", edad |-> 17, telefono |-> None],
      [nombre |-> ana, apellido |-> "Ruiz", email |-> "b@x", edad |-> 18, telefono |-> "555"],
      [nombre |-> Al,  apellido |-> "Paz",  email |-> "a@x", edad |-> 19, telefono |-> "777"] }

(***************************************************************************)
(* str(id) and the store's parse of an identifier operand                  *)
(***************************************************************************)
Digits == <<"0", "1", "2", "3", "4", "5", "6", "7", "8", "9">>

RECURSIVE str(_)
str(n) == IF n < 10 THEN <<Digits[n + 1]>>
          ELSE Append(str(n \div 10), Digits[(n % 10) + 1])

DigitValue(c) == CHOOSE d \in 0..9 : Digits[d + 1] = c

RECURSIVE ParseInt(_)
ParseInt(s) == IF Len(s) = 1 THEN DigitValue(s[1])
               ELSE 10 * ParseInt(SubSeq(s, 1, Len(s) - 1)) + DigitValue(s[Len(s)])

\* Identifiers a call may name: those the store can hand out.
RequestIds == { str(n) : n \in 1..MaxId }
UseCaseIds == { str(n) : n \in 1..MaxPersonas }

(***************************************************************************)
(* The store: query-builder calls on a table                               *)
(***************************************************************************)
Min(a, b) == IF a < b THEN a ELSE b

\* The value a column takes from the value sent for it: a fecha_* column
\* reads the ISO text it is sent as a point in time.
StoreCell(c, v) == IF c \in TimeColumns THEN ParseInt(v) ELSE v

\* A new row: the given columns, the store-assigned id and created_at, NULL
\* elsewhere.
StoreNewRow(data, id) ==
    [c \in Columns |-> IF c \in DOMAIN data THEN StoreCell(c, data[c])
                       ELSE IF c = "id" THEN id
                       ELSE IF c = "created_at" THEN StoreTs
                       ELSE IF c \in TimeColumns THEN NoTime
                       ELSE None]

\* table(t).insert(data).execute(): the table after the insert, and its .data.
\* The store either inserts the row and returns it, or returns no row and
\* leaves the table as it was.
StoreInsertOutcomes == {"row", "norow"}
StoreInsert(t, data, id, outcome) ==
    IF outcome = "row" THEN Append(t, StoreNewRow(data, id)) ELSE t
StoreInserted(data, id, outcome) ==
    IF outcome = "row" THEN <<StoreNewRow(data, id)>> ELSE <<>>

\* .eq("id", operand): the operand arrives as text and is compared as a number.
IdMatches(r, idText) == r.id = ParseInt(idText)

\* table(t).select("*").eq("id", id).execute().data
StoreSelectById(t, idText) == SelectSeq(t, LAMBDA r : IdMatches(r, idText))

\* table(t).select("*").eq("email", email).execute().data
StoreSelectByEmail(t, email) == SelectSeq(t, LAMBDA r : r.email = email)

\* One row after update(data): the columns of data overwritten, updated_at
\* refreshed by the store, the rest kept.
StoreAssign(r, data) ==
    [c \in Columns |-> IF c \in DOMAIN data THEN StoreCell(c, data[c])
                       ELSE IF c = "updated_at" THEN StoreTs
                       ELSE r[c]]

\* The update would give a matched row the id another row holds: the store
\* keeps id unique and refuses the request.
StoreConflicts(t, idText, data) ==
    /\ "id" \in DOMAIN data
    /\ \E i \in DOMAIN t :
          /\ IdMatches(t[i], idText)
          /\ \E j \in DOMAIN t : j # i /\ ~IdMatches(t[j], idText) /\ t[j].id = data.id

\* table(t).update(data).eq("id", id).execute(): the table after the update.
StoreUpdate(t, idText, data) ==
    IF StoreConflicts(t, idText, data) THEN t
    ELSE [i \in DOMAIN t |-> IF IdMatches(t[i], idText) THEN StoreAssign(t[i], data)
                             ELSE t[i]]

\* ... and its .data: the rows it updated, as they are after the update.
StoreUpdated(t, idText, data) ==
    LET hit == SelectSeq(t, LAMBDA r : IdMatches(r, idText))
    IN  [i \in DOMAIN hit |-> StoreAssign(hit[i], data)]

\* table(t).delete().eq("id", id).execute(): the table after the delete.
StoreDelete(t, idText) == SelectSeq(t, LAMBDA r : ~IdMatches(r, idText))

\* ... and its .data: the rows it removed.
StoreDeleted(t, idText) == SelectSeq(t, LAMBDA r : IdMatches(r, idText))

\* query.range(from, to): the rows at 0-based positions from..to, both inclusive.
StoreRange(rows, from, to) ==
    LET last == Min(to, Len(rows) - 1)
        n    == IF last < from THEN 0 ELSE last - from + 1
    IN  [i \in 1..n |-> rows[from + i]]

\* query.order(col, desc): insertion sort of the rows on an integer column.
RECURSIVE InsertSorted(_, _, _, _)
InsertSorted(r, sorted, col, desc) ==
    IF sorted = <<>> THEN <<r>>
    ELSE IF (desc /\ r[col] > Head(sorted)[col]) \/ (~desc /\ r[col] < Head(sorted)[col])
         THEN <<r>> \o sorted
         ELSE <<Head(sorted)>> \o InsertSorted(r, Tail(sorted), col, desc)

RECURSIVE StoreOrder(_, _, _)
StoreOrder(rows, col, desc) ==
    IF rows = <<>> THEN <<>>
    ELSE InsertSorted(Head(rows), StoreOrder(Tail(rows), col, desc), col, desc)

\* SQL LIKE: % matches any run of characters, _ any one character.
RECURSIVE Like(_, _)
Like(s, p) ==
    IF p = <<>> THEN s = <<>>
    ELSE IF Head(p) = "%" THEN Like(s, Tail(p)) \/ (s # <<>> /\ Like(Tail(s), p))
    ELSE IF s = <<>> THEN FALSE
    ELSE (Head(p) = "_" \/ Head(p) = Head(s)) /\ Like(Tail(s), Tail(p))

LowerChar(c) == CASE c = "A" -> "a" [] c = "N" -> "n" [] c = "L" -> "l" [] OTHER -> c
Lower(s) == [i \in DOMAIN s |-> LowerChar(s[i])]

\* SQL ILIKE: LIKE without regard to case.
ILike(s, p) == Like(Lower(s), Lower(p))

(***************************************************************************)
(* Filter expressions                                                      *)
(*                                                                         *)
(* A filter mapping is the sequence of its (key, value) pairs in insertion *)
(* order; None and the empty mapping, which `if filters:` treats alike,    *)
(* are both <<>>.  A value is a scalar or a dict, itself the sequence of   *)
(* its (operator, operand) items in insertion order.                       *)
(***************************************************************************)
Scalar(v) == [kind |-> "scalar", val |-> v]
Dict(items) == [kind |-> "dict", items |-> items]
Item(op, v) == [op |-> op, val |-> Scalar(v)]
Pair(key, value) == [key |-> key, value |-> value]

\* One query-builder call: query.<method>(col, val).
Pred(method, col, val) == [method |-> method, col |-> col, val |-> val]

\* The store's reading of one predicate on one row.  An operand that is a
\* dict reaches the store as its text, which no column value of the model
\* equals.
StoreHolds(r, p) ==
    IF p.val.kind # "scalar" THEN FALSE
    ELSE CASE p.method = "eq"    -> r[p.col] = p.val.val
           [] p.method = "gt"    -> r[p.col] > p.val.val
           [] p.method = "gte"   -> r[p.col] >= p.val.val
           [] p.method = "lt"    -> r[p.col] < p.val.val
           [] p.method = "lte"   -> r[p.col] <= p.val.val
           [] p.method = "like"  -> Like(r[p.col], p.val.val)
           [] p.method = "ilike" -> ILike(r[p.col], p.val.val)

\* The store refuses a request that compares an integer column with text
\* that is no number.
StoreRejects(preds) ==
    \E i \in DOMAIN preds : preds[i].val.kind # "scalar" /\ preds[i].col \in IntColumns

\* select("*") with the predicates ANDed, in the store's order.
StoreSelect(t, preds) ==
    SelectSeq(t, LAMBDA r : \A i \in DOMAIN preds : StoreHolds(r, preds[i]))

(***************************************************************************)
(* chati2.py: SupabaseGenericRepository                                    *)
(***************************************************************************)
Ok(data) == [err |-> None, data |-> data]
Raise(kind) == [err |-> kind, data |-> <<>>]

\* The $gte branch calling gt.
OperatorMethod_GteAsGt(operator) ==
    CASE operator = "$gt"    -> "gt"
      [] operator = "$gte"   -> "gt"
      [] operator = "$lt"    -> "lt"
      [] operator = "$lte"   -> "lte"
      [] operator = "$like"  -> "like"
      [] operator = "$ilike" -> "ilike"
      [] OTHER               -> None

\* A closing `else: query.eq(key, val)` for the operators the chain does not
\* name.
OperatorMethod_ElseEq(operator) ==
    CASE operator = "$gt"    -> "gt"
      [] operator = "$gte"   -> "gte"
      [] operator = "$lt"    -> "lt"
      [] operator = "$lte"   -> "lte"
      [] operator = "$like"  -> "like"
      [] operator = "$ilike" -> "ilike"
      [] OTHER               -> "eq"

\* The if/elif chain of get_all: the builder method an operator key selects.
OperatorMethod(operator) ==
    CASE operator = "$gt"    -> "gt"
      [] operator = "$gte"   -> "gte"
      [] operator = "$lt"    -> "lt"
      [] operator = "$lte"   -> "lte"
      [] operator = "$like"  -> "like"
      [] operator = "$ilike" -> "ilike"
      [] OTHER               -> None

\* A loop body that takes an empty mapping for no constraint.
GetAllPair_EmptySkipped(key, value) ==
    IF value.kind = "dict"
    THEN IF value.items = <<>> THEN Ok(<<>>)
         ELSE LET operator == value.items[1].op
                  val      == value.items[1].val
              IN  IF OperatorMethod(operator) = None THEN Ok(<<>>)
                  ELSE Ok(<<Pred(OperatorMethod(operator), key, val)>>)
    ELSE Ok(<<Pred("eq", key, value)>>)

\* A loop body that adds the predicate of every operator key of the mapping.
GetAllPair_EveryKey(key, value) ==
    IF value.kind = "dict"
    THEN IF value.items = <<>> THEN Raise("IndexError")
         ELSE LET known == SelectSeq(value.items, LAMBDA it : OperatorMethod(it.op) # None)
              IN  Ok([i \in DOMAIN known |->
                        Pred(OperatorMethod(known[i].op), key, known[i].val)])
    ELSE Ok(<<Pred("eq", key, value)>>)

\* The body of get_all's loop for one (key, value): the predicates it adds.
\* list(value.keys())[0] raises IndexError on an empty dict.
GetAllPair(key, value) ==
    IF value.kind = "dict"
    THEN IF value.items = <<>> THEN Raise("IndexError")
         ELSE LET operator == value.items[1].op
                  val      == value.items[1].val
              IN  IF OperatorMethod(operator) = None THEN Ok(<<>>)
                  ELSE Ok(<<Pred(OperatorMethod(operator), key, val)>>)
    ELSE Ok(<<Pred("eq", key, value)>>)

\* get_all's loop over filters.items(): all predicates, or the error raised.
RECURSIVE GetAllFilters(_)
GetAllFilters(filters) ==
    IF filters = <<>> THEN Ok(<<>>)
    ELSE LET first == GetAllPair(filters[1].key, filters[1].value)
         IN  IF first.err # None THEN first
             ELSE LET rest == GetAllFilters(Tail(filters))
                  IN  IF rest.err # None THEN rest
                      ELSE Ok(first.data \o rest.data)

\* SupabaseGenericRepository.get_all
Generic_get_all(t, skip, limit, filters) ==
    LET q == GetAllFilters(filters)
    IN  IF q.err # None THEN q
        ELSE IF StoreRejects(q.data) THEN Raise("APIError")
        ELSE Ok(StoreRange(StoreSelect(t, q.data), skip, skip + limit - 1))

\* count's loop: query.eq(key, value) for every pair, whatever the value is.
RECURSIVE CountFilters(_)
CountFilters(filters) ==
    IF filters = <<>> THEN <<>>
    ELSE <<Pred("eq", filters[1].key, filters[1].value)>> \o CountFilters(Tail(filters))

\* SupabaseGenericRepository.count
Generic_count(t, filters) ==
    LET preds == CountFilters(filters)
    IN  IF StoreRejects(preds) THEN [err |-> "APIError", count |-> 0]
        ELSE [err |-> None, count |-> Len(StoreSelect(t, preds))]

\* SupabaseGenericRepository.insert, given result.data
Generic_insert(resultData) ==
    IF resultData # <<>> THEN Ok(<<resultData[1]>>) ELSE Ok(<<>>)

\* SupabaseGenericRepository.update, given result.data
Generic_update(resultData) ==
    IF resultData # <<>> THEN Ok(<<resultData[1]>>) ELSE Ok(<<>>)

\* SupabaseGenericRepository.delete, given result.data
Generic_delete(resultData) == Len(resultData) > 0

(***************************************************************************)
(* chati.py: SupabasePersonaRepository                                     *)
(***************************************************************************)
\* datetime.fromisoformat: the datetime an ISO text denotes.
StoreDatetime == "datetime(ts)"
fromisoformat(text) == CASE text = StoreTs -> StoreDatetime

\* _to_entity: a Persona from a row.
_to_entity(row) ==
    [id |-> str(row.id), nombre |-> row.nombre, apellido |-> row.apellido,
     email |-> row.email, edad |-> row.edad, telefono |-> row.telefono,
     created_at |-> IF row.created_at # None THEN fromisoformat(row.created_at) ELSE None,
     updated_at |-> IF row.updated_at # None THEN fromisoformat(row.updated_at) ELSE None]

\* The dict create and update send: the five business fields of the entity.
PersonaData(persona) ==
    [nombre |-> persona.nombre, apellido |-> persona.apellido,
     email |-> persona.email, edad |-> persona.edad, telefono |-> persona.telefono]

\* SupabasePersonaRepository.create, given result.data: result.data[0]
\* raises IndexError on an empty list.
Persona_create(resultData) ==
    IF resultData = <<>> THEN Raise("IndexError") ELSE Ok(<<_to_entity(resultData[1])>>)

\* The .eq("id", persona_id) left out of the select: the first row there is.
Persona_get_by_id_NoEq(t, persona_id) ==
    IF t = <<>> THEN <<>> ELSE <<_to_entity(t[1])>>

\* SupabasePersonaRepository.get_by_id
Persona_get_by_id(t, persona_id) ==
    LET data == StoreSelectById(t, persona_id)
    IN  IF data = <<>> THEN <<>> ELSE <<_to_entity(data[1])>>

\* SupabasePersonaRepository.get_by_email
Persona_get_by_email(t, email) ==
    LET data == StoreSelectByEmail(t, email)
    IN  IF data = <<>> THEN <<>> ELSE <<_to_entity(data[1])>>

\* range(skip, skip + limit): the inclusive upper end one too far.
Persona_get_all_OneMore(t, skip, limit) ==
    LET data == StoreRange(t, skip, skip + limit)
    IN  Ok([i \in DOMAIN data |-> _to_entity(data[i])])

\* SupabasePersonaRepository.get_all
Persona_get_all(t, skip, limit) ==
    LET data == StoreRange(t, skip, skip + limit - 1)
    IN  Ok([i \in DOMAIN data |-> _to_entity(data[i])])

\* SupabasePersonaRepository.update, given result.data
Persona_update(resultData) ==
    IF resultData = <<>> THEN <<>> ELSE <<_to_entity(resultData[1])>>

\* `len(result.data) >= 0`: true whatever was removed.
Persona_delete_Always(resultData) == Len(resultData) >= 0

\* SupabasePersonaRepository.delete, given result.data
Persona_delete(resultData) == Len(resultData) > 0

(***************************************************************************)
(* generic_crud.py                                                         *)
(***************************************************************************)
\* datetime.isoformat(): the text of a clock reading.
isoformat(t) == str(t)

\* insert: the data sent, fecha_creado defaulted to utcnow().isoformat().
Crud_insert_data(data, now) ==
    IF "fecha_creado" \in DOMAIN data THEN data
    ELSE [c \in DOMAIN data \cup {"fecha_creado"} |->
             IF c = "fecha_creado" THEN isoformat(now) ELSE data[c]]

\* insert, given response.data
Crud_insert(responseData) ==
    IF responseData = <<>> THEN Raise("Exception") ELSE Ok(<<responseData[1]>>)

\* update: the updates sent, fecha_edit set to utcnow().isoformat().
Crud_update_data(updates, now) ==
    [c \in DOMAIN updates \cup {"fecha_edit"} |->
        IF c = "fecha_edit" THEN isoformat(now) ELSE updates[c]]

\* update, given response.data
Crud_update(responseData) ==
    IF responseData = <<>> THEN Raise("Exception") ELSE Ok(<<responseData[1]>>)

\* A soft delete that clears the row's business fields along with estado.
Crud_soft_delete_data_Wipe(now) ==
    [fecha_edit |-> isoformat(now), estado |-> "inactivo", email |-> None]

\* soft_delete: the updates it hands to update.
Crud_soft_delete_data(now) ==
    [fecha_edit |-> isoformat(now), estado |-> "inactivo"]

\* get's loop: query.eq(field, value) for every pair.
RECURSIVE CrudFilters(_)
CrudFilters(filters) ==
    IF filters = <<>> THEN <<>>
    ELSE <<Pred("eq", filters[1].key, filters[1].value)>> \o CrudFilters(Tail(filters))

\* get
Crud_get(t, filters, limit, offset, order_by, order_desc) ==
    LET preds == CrudFilters(filters)
    IN  IF StoreRejects(preds) THEN Raise("APIError")
        ELSE Ok(StoreRange(StoreOrder(StoreSelect(t, preds), order_by, order_desc),
                           offset, offset + limit - 1))

\* A count that leaves out the rows whose estado is 'inactivo'.
Crud_count_ActiveOnly(t, filters) ==
    LET preds == CrudFilters(filters)
    IN  IF StoreRejects(preds) THEN [err |-> "APIError", count |-> 0]
        ELSE [err |-> None,
              count |-> Len(SelectSeq(StoreSelect(t, preds),
                                      LAMBDA r : r.estado # "inactivo"))]

\* count: query.eq(field, value) for every pair, then response.count.
Crud_count(t, filters) ==
    LET preds == CrudFilters(filters)
    IN  IF StoreRejects(preds) THEN [err |-> "APIError", count |-> 0]
        ELSE [err |-> None, count |-> Len(StoreSelect(t, preds))]

(***************************************************************************)
(* get_supabase_client: config/supabase.py, chati.py and chati2.py         *)
(*                                                                         *)
(* A client is known by the number of the create_client call that built it.*)
(***************************************************************************)
\* Before any call: nothing cached, nothing built.
NoClients == [cache |-> <<>>, built |-> 0, calls |-> <<>>]

\* The three definitions of get_supabase_client.
ClientGetters == {"config", "chati", "chati2"}

\* create_client either returns a client or raises (a bad URL or key).
CreateClientOutcomes == {"client", "raise"}

\* create_client(url, key), given how many clients were built before.
create_client(built, outcome) ==
    IF outcome = "client" THEN Ok(<<built + 1>>) ELSE Raise("Exception")

\* get_supabase_client: what the call returns.  Only config/supabase.py's is
\* under @lru_cache(), which answers from its entry when it has one.
get_supabase_client(getter, c, outcome) ==
    IF getter = "config" /\ c.cache # <<>>
    THEN Ok(c.cache)
    ELSE create_client(c.built, outcome)

\* Whether the call ran create_client and got a client.
BuiltNow(getter, c, out) ==
    out.err = None /\ ~(getter = "config" /\ c.cache # <<>>)

\* lru_cache keeps the value its function returned; a raise stores nothing.
ClientsAfter(getter, c, out) ==
    [cache |-> IF getter = "config" /\ c.cache = <<>> /\ out.err = None
               THEN out.data ELSE c.cache,
     built |-> IF BuiltNow(getter, c, out) THEN c.built + 1 ELSE c.built,
     calls |-> Append(c.calls, [getter |-> getter, out |-> out])]

(***************************************************************************)
(* Inputs of the repository-level calls                                    *)
(***************************************************************************)
DefaultLimit == 100     \* limit: int = 100

\* Row dicts handed to generic_crud.insert (test_insert_data's shape).
CrudData ==
    { [nombre |-> ana, apellido |-> "Ruiz", email |-> "c@x", edad |-> 18,
       telefono |-> None, estado |-> "activo"] }

\* Filter mappings, in the order their pairs were inserted.
FilterList ==
    << <<>>,
       <<Pair("edad", Scalar(18))>>,
       <<Pair("nombre", Scalar(ana))>>,
       <<Pair("edad", Dict(<<Item("$gt", 18)>>))>>,
       <<Pair("edad", Dict(<<Item("$gte", 18)>>))>>,
       <<Pair("edad", Dict(<<Item("$lt", 18)>>))>>,
       <<Pair("edad", Dict(<<Item("$lte", 18)>>))>>,
       <<Pair("nombre", Dict(<<Item("$like", <<"a", "%">>)>>))>>,
       <<Pair("nombre", Dict(<<Item("$ilike", <<"a", "%">>)>>))>>,
       <<Pair("nombre", Dict(<<Item("$like", <<"_", "n">>)>>))>>,
       <<Pair("edad", Dict(<<Item("$ne", 18)>>))>>,
       <<Pair("apellido", Scalar("Paz")), Pair("edad", Dict(<<Item("$gte", 18)>>))>>,
       <<Pair("edad", Dict(<<Item("$in", 18)>>)), Pair("apellido", Scalar("Paz"))>>,
       <<Pair("edad", Dict(<<Item("$gt", 17), Item("$lt", 19)>>))>>,
       <<Pair("edad", Dict(<<>>))>>,
       <<Pair("apellido", Scalar("Paz")), Pair("edad", Dict(<<>>))>> >>

\* The filters generic_crud.get and count are given in the flow tests: plain
\* scalars.
CrudFilterList ==
    << <<>>,
       <<Pair("estado", Scalar("activo"))>>,
       <<Pair("edad", Scalar(18))>>,
       <<Pair("apellido", Scalar("Paz")), Pair("edad", Scalar(19))>> >>

\* (skip, limit) of the paginated calls.
Windows == (0..MaxSkip) \X (1..MaxLimit)

(***************************************************************************)
(* Inputs and bookkeeping of the use-case calls                            *)
(***************************************************************************)
Procs == {"r1", "r2"}       \* requests the transport layer runs at once

\* PersonaCreateDTOs the use-case calls carry.
UcCreateDTOs == { d \in CreateDTOs : d.edad < 19 }

\* model_dump(exclude_unset=True) of the PersonaUpdateDTOs (and the data
\* dicts of GenericUpdateSchema) the calls carry.
UpdateDTOs ==
    { [edad |-> 19], [email |-> "a@x"], [telefono |-> None] }

NoCall == [op |-> "none"]
NoFin == [op |-> "none", by |-> "none"]

(***************************************************************************)
(* Repository-level calls, each one round trip to the store                *)
(***************************************************************************)
Init ==
    /\ tabla = <<>>
    /\ nextId = 1
    /\ reloj = 0
    /\ clientes = NoClients
    /\ pc = [p \in Procs |-> "idle"]
    /\ loc = [p \in Procs |-> NoCall]
    /\ fin = NoFin
    /\ ultimo = [op |-> "none"]

UseCaseVars == <<pc, loc, fin>>

\* datetime.utcnow() moves on.
Tick ==
    /\ reloj < MaxReloj
    /\ reloj' = reloj + 1
    /\ UNCHANGED <<tabla, nextId, clientes, ultimo, UseCaseVars>>

\* The store's part of an insert: the row gets the next identifier.
DoStoreInsert(data, outcome) ==
    /\ nextId <= MaxId
    /\ tabla' = StoreInsert(tabla, data, nextId, outcome)
    /\ nextId' = IF outcome = "row" THEN nextId + 1 ELSE nextId

Call_Generic_insert ==
    \E data \in CreateDTOs, outcome \in StoreInsertOutcomes :
        /\ DoStoreInsert(data, outcome)
        /\ ultimo' = [op |-> "Generic_insert", outcome |-> outcome,
                      out |-> Generic_insert(StoreInserted(data, nextId, outcome))]
        /\ UNCHANGED <<reloj, clientes, UseCaseVars>>

Call_Persona_create ==
    \E dto \in CreateDTOs, outcome \in StoreInsertOutcomes :
        /\ DoStoreInsert(PersonaData(dto), outcome)
        /\ ultimo' = [op |-> "Persona_create", outcome |-> outcome,
                      out |-> Persona_create(StoreInserted(PersonaData(dto), nextId, outcome))]
        /\ UNCHANGED <<reloj, clientes, UseCaseVars>>

Call_Crud_insert ==
    \E data \in CrudData, outcome \in StoreInsertOutcomes :
        LET sent == Crud_insert_data(data, reloj)
        IN  /\ DoStoreInsert(sent, outcome)
            /\ ultimo' = [op |-> "Crud_insert", outcome |-> outcome,
                          out |-> Crud_insert(StoreInserted(sent, nextId, outcome))]
            /\ UNCHANGED <<reloj, clientes, UseCaseVars>>

Call_Generic_delete ==
    \E id \in RequestIds :
        /\ tabla' = StoreDelete(tabla, id)
        /\ ultimo' = [op |-> "Generic_delete", id |-> id,
                      out |-> Generic_delete(StoreDeleted(tabla, id))]
        /\ UNCHANGED <<nextId, reloj, clientes, UseCaseVars>>

\* get_all under every window without a filter, and under one narrow window
\* with every filter.
Call_Generic_get_all ==
    \E w \in Windows, f \in DOMAIN FilterList :
        /\ (f = 1 \/ w = <<1, 1>>)
        /\ ultimo' = [op |-> "Generic_get_all", skip |-> w[1], limit |-> w[2],
                      filters |-> FilterList[f],
                      out |-> Generic_get_all(tabla, w[1], w[2], FilterList[f])]
        /\ UNCHANGED <<tabla, nextId, reloj, clientes, UseCaseVars>>

\* get_all with skip and limit left at their defaults.
Call_Generic_get_all_default ==
    \E f \in DOMAIN FilterList :
        /\ ultimo' = [op |-> "Generic_get_all", skip |-> 0, limit |-> DefaultLimit,
                      filters |-> FilterList[f],
                      out |-> Generic_get_all(tabla, 0, DefaultLimit, FilterList[f])]
        /\ UNCHANGED <<tabla, nextId, reloj, clientes, UseCaseVars>>

Call_Generic_count ==
    \E f \in DOMAIN FilterList :
        /\ ultimo' = [op |-> "Generic_count", filters |-> FilterList[f],
                      out |-> Generic_count(tabla, FilterList[f])]
        /\ UNCHANGED <<tabla, nextId, reloj, clientes, UseCaseVars>>

Call_Persona_get_all ==
    \E w \in Windows :
        /\ ultimo' = [op |-> "Persona_get_all", skip |-> w[1], limit |-> w[2],
                      out |-> Persona_get_all(tabla, w[1], w[2])]
        /\ UNCHANGED <<tabla, nextId, reloj, clientes, UseCaseVars>>

\* get with order_by and order_desc left at their defaults ("id", True).
Call_Crud_get ==
    \E w \in Windows :
        /\ ultimo' = [op |-> "Crud_get", skip |-> w[1], limit |-> w[2],
                      filters |-> <<>>,
                      out |-> Crud_get(tabla, <<>>, w[2], w[1], "id", TRUE)]
        /\ UNCHANGED <<tabla, nextId, reloj, clientes, UseCaseVars>>

\* get with limit and offset left at their defaults too.
Call_Crud_get_default ==
    \E f \in DOMAIN CrudFilterList :
        /\ ultimo' = [op |-> "Crud_get", skip |-> 0, limit |-> DefaultLimit,
                      filters |-> CrudFilterList[f],
                      out |-> Crud_get(tabla, CrudFilterList[f], DefaultLimit, 0, "id", TRUE)]
        /\ UNCHANGED <<tabla, nextId, reloj, clientes, UseCaseVars>>

NextRepo ==
    \/ Call_Generic_insert
    \/ Call_Persona_create
    \/ Call_Crud_insert
    \/ Call_Generic_delete
    \/ Call_Generic_get_all
    \/ Call_Generic_get_all_default
    \/ Call_Generic_count
    \/ Call_Persona_get_all
    \/ Call_Crud_get
    \/ Call_Crud_get_default

SpecRepo == Init /\ [][NextRepo]_vars

\* Updates handed to generic_crud.update: a business field, and the
\* creation timestamp itself.
CrudUpdates == { [edad |-> 19], [fecha_creado |-> isoformat(MaxReloj)] }

Call_Crud_update ==
    \E id \in RequestIds, updates \in CrudUpdates :
        LET sent == Crud_update_data(updates, reloj)
        IN  /\ tabla' = StoreUpdate(tabla, id, sent)
            /\ ultimo' = [op |-> "Crud_update", id |-> id, data |-> updates,
                          out |-> Crud_update(StoreUpdated(tabla, id, sent))]
            /\ UNCHANGED <<nextId, reloj, clientes, UseCaseVars>>

Call_Crud_soft_delete ==
    \E id \in RequestIds :
        LET updates == Crud_soft_delete_data(reloj)
            sent    == Crud_update_data(updates, reloj)
        IN  /\ tabla' = StoreUpdate(tabla, id, sent)
            /\ ultimo' = [op |-> "Crud_soft_delete", id |-> id, data |-> updates,
                          out |-> Crud_update(StoreUpdated(tabla, id, sent))]
            /\ UNCHANGED <<nextId, reloj, clientes, UseCaseVars>>

\* The writes of generic_crud on a table of at most MaxFilas rows, with the
\* clock running between them.
NextCrud ==
    \/ (nextId <= MaxFilas /\ Call_Crud_insert)
    \/ Call_Crud_update
    \/ Call_Crud_soft_delete
    \/ Tick

SpecCrud == Init /\ [][NextCrud]_vars

(***************************************************************************)
(* Row-scoped repository calls: get_by_id, update and delete by identifier *)
(***************************************************************************)
\* An identifier value a caller puts in the data of a generic update; the
\* store hands it out to no row.
OtherId == 9

\* Data dicts handed to SupabaseGenericRepository.update.
GenericUpdates == { [edad |-> 19], [id |-> OtherId] }

\* Personas handed to SupabasePersonaRepository.update.
PersonaUpdates ==
    { [id |-> str(1), nombre |-> Al, apellido |-> "Paz", email |-> "a@x",
       edad |-> 19, telefono |-> None] }

Call_Persona_get_by_id ==
    \E id \in RequestIds :
        /\ ultimo' = [op |-> "Persona_get_by_id", id |-> id, data |-> <<>>,
                      out |-> Ok(Persona_get_by_id(tabla, id))]
        /\ UNCHANGED <<tabla, nextId, reloj, clientes, UseCaseVars>>

Call_Persona_update ==
    \E id \in RequestIds, persona \in PersonaUpdates :
        /\ tabla' = StoreUpdate(tabla, id, PersonaData(persona))
        /\ ultimo' = [op |-> "Persona_update", id |-> id, data |-> PersonaData(persona),
                      out |-> Ok(Persona_update(StoreUpdated(tabla, id, PersonaData(persona))))]
        /\ UNCHANGED <<nextId, reloj, clientes, UseCaseVars>>

Call_Generic_update ==
    \E id \in RequestIds, data \in GenericUpdates :
        /\ tabla' = StoreUpdate(tabla, id, data)
        /\ ultimo' = [op |-> "Generic_update", id |-> id, data |-> data,
                      out |-> IF StoreConflicts(tabla, id, data) THEN Raise("APIError")
                              ELSE Generic_update(StoreUpdated(tabla, id, data))]
        /\ UNCHANGED <<nextId, reloj, clientes, UseCaseVars>>

Call_Persona_delete ==
    \E id \in RequestIds :
        /\ tabla' = StoreDelete(tabla, id)
        /\ ultimo' = [op |-> "Persona_delete", id |-> id,
                      out |-> Persona_delete(StoreDeleted(tabla, id))]
        /\ UNCHANGED <<nextId, reloj, clientes, UseCaseVars>>

\* A table already filled (and refilled after a delete, up to MaxPersonas
\* rows): rows 1..MaxPersonas, inserted in turn through
\* SupabasePersonaRepository.create and generic_crud.insert at time 0.
FixtureRow(i) ==
    IF i % 2 = 1
    THEN StoreNewRow(PersonaData(CHOOSE d \in CreateDTOs : d.edad = 17), i)
    ELSE StoreNewRow(Crud_insert_data(CHOOSE d \in CrudData : TRUE, 0), i)

InitRow ==
    /\ tabla = [i \in 1..MaxPersonas |-> FixtureRow(i)]
    /\ nextId = MaxPersonas + 1
    /\ reloj = 0
    /\ clientes = NoClients
    /\ pc = [p \in Procs |-> "idle"]
    /\ loc = [p \in Procs |-> NoCall]
    /\ fin = NoFin
    /\ ultimo = [op |-> "none"]

NextRow ==
    \/ (Len(tabla) < MaxPersonas /\ Call_Persona_create)
    \/ Call_Persona_get_by_id
    \/ Call_Persona_update
    \/ Call_Generic_update
    \/ Call_Crud_update
    \/ Call_Persona_delete
    \/ Call_Generic_delete

SpecRow == InitRow /\ [][NextRow]_vars

Call_Crud_count ==
    \E f \in DOMAIN CrudFilterList :
        /\ ultimo' = [op |-> "Crud_count", filters |-> CrudFilterList[f],
                      out |-> Crud_count(tabla, CrudFilterList[f])]
        /\ UNCHANGED <<tabla, nextId, reloj, clientes, UseCaseVars>>

\* generic_crud on the filled table: soft_delete and update, and the reads
\* get and count between them.
NextSeen ==
    \/ Call_Crud_soft_delete
    \/ Call_Crud_update
    \/ Call_Crud_get_default
    \/ Call_Crud_count

SpecSeen == InitRow /\ [][NextSeen]_vars

\* soft_delete and update of generic_crud on the filled table.
NextSoft ==
    \/ Call_Crud_soft_delete
    \/ Call_Crud_update

SpecSoft == InitRow /\ [][NextSoft]_vars

(***************************************************************************)
(* Use cases: chati.py 109-218 and chati2.py 131-178                       *)
(*                                                                         *)
(* A call is received (Begin), awaits its probe, and, if the probe lets it *)
(* through, awaits its write.  Other requests may run between the awaits.  *)
(***************************************************************************)
Call(op, id, data) == [op |-> op, id |-> id, data |-> data]

\* The calls made one after the other.
Calls ==
    { Call("create", <<>>, d) : d \in UcCreateDTOs }
    \cup { Call(op, id, d) : op \in {"update", "g_update"}, id \in UseCaseIds, d \in UpdateDTOs }
    \cup { Call(op, id, <<>>) : op \in {"delete", "g_delete"}, id \in UseCaseIds }

\* The reads by identifier, made one after the other too.
ReadCalls == { Call(op, id, <<>>) : op \in {"get", "g_get"}, id \in UseCaseIds }

\* The calls made while other requests are in flight: creates, and updates
\* of one field and deletes that contend for the first row.
OverlapCalls ==
    { c \in Calls :
        /\ c.op # "create" => c.id = str(1)
        /\ c.op = "update" => DOMAIN c.data \subseteq {"edad", "email"}
        /\ c.op = "g_update" => DOMAIN c.data = {"edad"} }

\* The existence check left out: nothing is ever taken to be absent.
IsAbsent_Unchecked(existing) == FALSE

\* `if not existing:` / `if existing:` on an Optional result.
IsAbsent(existing) == existing = <<>>

\* How a call ended: the error raised (None: it returned), the row or entity
\* returned (<<>>: absence), the boolean returned by a delete, the number of
\* mutating requests the call sent to the store, and the row the store held
\* under the call's identifier when the call took its last step.
Fin(p, c, err, ret, flag, writes) ==
    [op |-> c.op, by |-> p, id |-> c.id, data |-> c.data, err |-> err,
     ret |-> ret, flag |-> flag, writes |-> writes, prev |-> c.prev,
     before |-> IF c.id = <<>> THEN <<>> ELSE StoreSelectById(tabla, c.id)]

\* Whether the call that completed last was this very update, and succeeded.
SameUpdate(c) ==
    /\ fin.op = c.op
    /\ c.op \in {"update", "g_update"}
    /\ fin.id = c.id
    /\ fin.data = c.data
    /\ fin.err = None
    /\ fin.ret # <<>>

InFlightCreates == Cardinality({ q \in Procs : pc[q] # "idle" /\ loc[q].op = "create" })

\* The transport layer hands a request to its use case.
Begin(p, calls) ==
    /\ pc[p] = "idle"
    /\ \E c \in calls :
        /\ c.op = "create" => nextId + InFlightCreates <= MaxPersonas + 1
        /\ loc' = [loc EXCEPT ![p] =
                      [op |-> c.op, id |-> c.id, data |-> c.data, existing |-> <<>>,
                       prev |-> IF SameUpdate(c) THEN fin.ret ELSE <<>>]]
    /\ pc' = [pc EXCEPT ![p] = "probe"]
    /\ fin' = NoFin
    /\ UNCHANGED <<tabla, nextId, reloj, clientes, ultimo>>

\* The call of p ends: its outcome is what completed last.
Finish(p, err, ret, flag, writes) ==
    /\ pc' = [pc EXCEPT ![p] = "idle"]
    /\ loc' = [loc EXCEPT ![p] = NoCall]
    /\ fin' = Fin(p, loc[p], err, ret, flag, writes)

\* The probe let the call through: it goes on to its write.
Proceed(p, existing) ==
    /\ pc' = [pc EXCEPT ![p] = "write"]
    /\ loc' = [loc EXCEPT ![p].existing = existing]
    /\ fin' = NoFin

\* CreatePersonaUseCase.execute, up to the await of repository.create
CreateProbe(p) ==
    /\ pc[p] = "probe" /\ loc[p].op = "create"
    /\ LET existing == Persona_get_by_email(tabla, loc[p].data.email)
       IN  IF ~IsAbsent(existing)
           THEN Finish(p, "DuplicateKey", <<>>, FALSE, 0)
           ELSE Proceed(p, existing)
    /\ UNCHANGED <<tabla, nextId, reloj, clientes, ultimo>>

\* The Persona built by CreatePersonaUseCase.execute
NewPersona(data) ==
    [id |-> None, nombre |-> data.nombre, apellido |-> data.apellido,
     email |-> data.email, edad |-> data.edad, telefono |-> data.telefono]

\* PersonaResponseDTO.model_validate(obj): a DTO with the entity's
\* attributes, or a ValidationError when obj is None.
model_validate(obj) ==
    IF obj = <<>> THEN Raise("ValidationError") ELSE Ok(obj)

\* CreatePersonaUseCase.execute, from repository.create on
CreateWrite(p) ==
    /\ pc[p] = "write" /\ loc[p].op = "create"
    /\ \E outcome \in StoreInsertOutcomes :
        LET sent    == PersonaData(NewPersona(loc[p].data))
            created == Persona_create(StoreInserted(sent, nextId, outcome))
            dto     == IF created.err # None THEN created ELSE model_validate(created.data)
        IN  /\ DoStoreInsert(sent, outcome)
            /\ Finish(p, dto.err, dto.data, FALSE, 1)
    /\ UNCHANGED <<reloj, clientes, ultimo>>

\* UpdatePersonaUseCase.execute, up to the await of repository.update
UpdateProbe(p) ==
    /\ pc[p] = "probe" /\ loc[p].op = "update"
    /\ LET existing == Persona_get_by_id(tabla, loc[p].id)
       IN  IF IsAbsent(existing)
           THEN Finish(p, "NotFound", <<>>, FALSE, 0)
           ELSE Proceed(p, existing)
    /\ UNCHANGED <<tabla, nextId, reloj, clientes, ultimo>>

\* `updated_data.get(field) or existing.field`: a None in the payload (only
\* telefono can carry one) is taken for an absent field.
Get_OrDefault(updated_data, field, default) ==
    IF field \in DOMAIN updated_data /\ ~(field = "telefono" /\ updated_data[field] = None)
    THEN updated_data[field] ELSE default

\* updated_data.get(field, existing.field)
Get(updated_data, field, default) ==
    IF field \in DOMAIN updated_data THEN updated_data[field] ELSE default

\* The defaults of email and telefono taken from each other's field.
MergedPersona_Swapped(persona_id, updated_data, existing) ==
    [id |-> persona_id,
     nombre   |-> Get(updated_data, "nombre", existing.nombre),
     apellido |-> Get(updated_data, "apellido", existing.apellido),
     email    |-> Get(updated_data, "email", existing.telefono),
     edad     |-> Get(updated_data, "edad", existing.edad),
     telefono |-> Get(updated_data, "telefono", existing.email)]

\* The defaults taken from the row as the store holds it at the write, not
\* from the entity the probe returned.
MergedPersona_Reread(persona_id, updated_data, existing) ==
    LET data == StoreSelectById(tabla, persona_id)
        now  == IF data = <<>> THEN existing ELSE _to_entity(data[1])
    IN  [id |-> persona_id,
         nombre   |-> Get(updated_data, "nombre", now.nombre),
         apellido |-> Get(updated_data, "apellido", now.apellido),
         email    |-> Get(updated_data, "email", now.email),
         edad     |-> Get(updated_data, "edad", now.edad),
         telefono |-> Get(updated_data, "telefono", now.telefono)]

\* The Persona built by UpdatePersonaUseCase.execute
MergedPersona(persona_id, updated_data, existing) ==
    [id |-> persona_id,
     nombre   |-> Get(updated_data, "nombre", existing.nombre),
     apellido |-> Get(updated_data, "apellido", existing.apellido),
     email    |-> Get(updated_data, "email", existing.email),
     edad     |-> Get(updated_data, "edad", existing.edad),
     telefono |-> Get(updated_data, "telefono", existing.telefono)]

\* UpdatePersonaUseCase.execute, from repository.update on
UpdateWrite(p) ==
    /\ pc[p] = "write" /\ loc[p].op = "update"
    /\ LET persona == MergedPersona(loc[p].id, loc[p].data, loc[p].existing[1])
           sent    == PersonaData(persona)
           updated == Persona_update(StoreUpdated(tabla, loc[p].id, sent))
           dto     == model_validate(updated)
       IN  /\ tabla' = StoreUpdate(tabla, loc[p].id, sent)
           /\ Finish(p, dto.err, dto.data, FALSE, 1)
    /\ UNCHANGED <<nextId, reloj, clientes, ultimo>>

\* DeletePersonaUseCase.execute, up to the await of repository.delete
DeleteProbe(p) ==
    /\ pc[p] = "probe" /\ loc[p].op = "delete"
    /\ LET existing == Persona_get_by_id(tabla, loc[p].id)
       IN  IF IsAbsent(existing)
           THEN Finish(p, "NotFound", <<>>, FALSE, 0)
           ELSE Proceed(p, existing)
    /\ UNCHANGED <<tabla, nextId, reloj, clientes, ultimo>>

\* DeletePersonaUseCase.execute, from repository.delete on
DeleteWrite(p) ==
    /\ pc[p] = "write" /\ loc[p].op = "delete"
    /\ tabla' = StoreDelete(tabla, loc[p].id)
    /\ Finish(p, None, <<>>, Persona_delete(StoreDeleted(tabla, loc[p].id)), 1)
    /\ UNCHANGED <<nextId, reloj, clientes, ultimo>>

\* BaseRepositoryInterface.get_by_id as GenericCRUDUseCase uses it: the row
\* with that identifier, or absence.
Generic_get_by_id(t, id) ==
    LET data == StoreSelectById(t, id)
    IN  IF data = <<>> THEN <<>> ELSE <<data[1]>>

\* GenericCRUDUseCase.update, up to the await of repository.update
GenericUpdateProbe(p) ==
    /\ pc[p] = "probe" /\ loc[p].op = "g_update"
    /\ LET existing == Generic_get_by_id(tabla, loc[p].id)
       IN  IF IsAbsent(existing)
           THEN Finish(p, "NotFound", <<>>, FALSE, 0)
           ELSE Proceed(p, existing)
    /\ UNCHANGED <<tabla, nextId, reloj, clientes, ultimo>>

\* GenericCRUDUseCase.update, from repository.update on
GenericUpdateWrite(p) ==
    /\ pc[p] = "write" /\ loc[p].op = "g_update"
    /\ LET result == Generic_update(StoreUpdated(tabla, loc[p].id, loc[p].data))
       IN  /\ tabla' = StoreUpdate(tabla, loc[p].id, loc[p].data)
           /\ Finish(p, result.err, result.data, FALSE, 1)
    /\ UNCHANGED <<nextId, reloj, clientes, ultimo>>

\* GenericCRUDUseCase.delete, up to the await of repository.delete
GenericDeleteProbe(p) ==
    /\ pc[p] = "probe" /\ loc[p].op = "g_delete"
    /\ LET existing == Generic_get_by_id(tabla, loc[p].id)
       IN  IF IsAbsent(existing)
           THEN Finish(p, "NotFound", <<>>, FALSE, 0)
           ELSE Proceed(p, existing)
    /\ UNCHANGED <<tabla, nextId, reloj, clientes, ultimo>>

\* GenericCRUDUseCase.delete, from repository.delete on
GenericDeleteWrite(p) ==
    /\ pc[p] = "write" /\ loc[p].op = "g_delete"
    /\ tabla' = StoreDelete(tabla, loc[p].id)
    /\ Finish(p, None, <<>>, Generic_delete(StoreDeleted(tabla, loc[p].id)), 1)
    /\ UNCHANGED <<nextId, reloj, clientes, ultimo>>

\* GetPersonaUseCase.execute
GetExecute(p) ==
    /\ pc[p] = "probe" /\ loc[p].op = "get"
    /\ LET persona == Persona_get_by_id(tabla, loc[p].id)
           dto     == model_validate(persona)
       IN  IF IsAbsent(persona)
           THEN Finish(p, "NotFound", <<>>, FALSE, 0)
           ELSE Finish(p, dto.err, dto.data, FALSE, 0)
    /\ UNCHANGED <<tabla, nextId, reloj, clientes, ultimo>>

\* GenericCRUDUseCase.get_by_id
GenericGetById(p) ==
    /\ pc[p] = "probe" /\ loc[p].op = "g_get"
    /\ LET result == Generic_get_by_id(tabla, loc[p].id)
       IN  IF IsAbsent(result)
           THEN Finish(p, "NotFound", <<>>, FALSE, 0)
           ELSE Finish(p, None, result, FALSE, 0)
    /\ UNCHANGED <<tabla, nextId, reloj, clientes, ultimo>>

\* Requests overlap: any request may take its next step.
Next ==
    \/ \E p \in Procs : Begin(p, OverlapCalls)
    \/ \E p \in Procs : CreateProbe(p)
    \/ \E p \in Procs : CreateWrite(p)
    \/ \E p \in Procs : UpdateProbe(p)
    \/ \E p \in Procs : UpdateWrite(p)
    \/ \E p \in Procs : DeleteProbe(p)
    \/ \E p \in Procs : DeleteWrite(p)
    \/ \E p \in Procs : GenericUpdateProbe(p)
    \/ \E p \in Procs : GenericUpdateWrite(p)
    \/ \E p \in Procs : GenericDeleteProbe(p)
    \/ \E p \in Procs : GenericDeleteWrite(p)

Spec == Init /\ [][Next]_vars

\* Requests one after the other: a call is received only while no request
\* is in flight.
NoneInFlight == \A q \in Procs : pc[q] = "idle"

NextSeq ==
    \/ \E p \in Procs : NoneInFlight /\ Begin(p, Calls \cup ReadCalls)
    \/ \E p \in Procs : CreateProbe(p)
    \/ \E p \in Procs : CreateWrite(p)
    \/ \E p \in Procs : UpdateProbe(p)
    \/ \E p \in Procs : UpdateWrite(p)
    \/ \E p \in Procs : DeleteProbe(p)
    \/ \E p \in Procs : DeleteWrite(p)
    \/ \E p \in Procs : GenericUpdateProbe(p)
    \/ \E p \in Procs : GenericUpdateWrite(p)
    \/ \E p \in Procs : GenericDeleteProbe(p)
    \/ \E p \in Procs : GenericDeleteWrite(p)
    \/ \E p \in Procs : GetExecute(p)
    \/ \E p \in Procs : GenericGetById(p)

SpecSeq == Init /\ [][NextSeq]_vars

(***************************************************************************)
(* chati.py: _to_entity on any dict the store may hand back                *)
(*                                                                         *)
(* A dict is a function from the keys it has to cells; a cell is <<>> for  *)
(* null and <<v>> for the value v.  The entity's fields are cells too.     *)
(***************************************************************************)
Null == <<>>
Cell(v) == <<v>>

EntityColumns == {"id", "nombre", "apellido", "email", "edad", "telefono",
                  "created_at", "updated_at"}

\* The keys _to_entity subscripts unconditionally: row["id"] .. row["edad"].
SubscriptedKeys == {"id", "nombre", "apellido", "email", "edad"}

\* The value a column has in the rows of this model when it is not null.
SampleValue(c) ==
    CASE c = "id"         -> 1
      [] c = "nombre"     -> Ana
      [] c = "apellido"   -> "Paz"
      [] c = "email"      -> "a@x"
      [] c = "edad"       -> 17
      [] c = "telefono"   -> "555"
      [] c = "created_at" -> StoreTs
      [] c = "updated_at" -> StoreTs

\* Every dict over the entity's columns: each key missing, null or valued.
RawRows ==
    UNION { [keys -> {"null", "value"}] : keys \in SUBSET EntityColumns }

RawRow(shape) ==
    [c \in DOMAIN shape |-> IF shape[c] = "null" THEN Null ELSE Cell(SampleValue(c))]

\* dict.get(key): None when the key is missing.
dict_get(row, key) == IF key \in DOMAIN row THEN row[key] ELSE Null

\* str(row["id"]): str(None) is the text 'None'.
str_cell(cell) == IF cell = Null THEN <<"N", "o", "n", "e">> ELSE str(cell[1])

\* datetime.fromisoformat(row[key]) if row.get(key) else None
datetime_or_None(row, key) ==
    IF dict_get(row, key) # Null THEN Cell(fromisoformat(row[key][1])) ELSE Null

\* _to_entity on such a dict: a subscript of a missing key raises KeyError;
\* the dataclass constructor checks nothing.
Persona_to_entity(row) ==
    IF ~(SubscriptedKeys \subseteq DOMAIN row)
    THEN Raise("KeyError")
    ELSE Ok(<<[id |-> str_cell(row.id), nombre |-> row.nombre,
               apellido |-> row.apellido, email |-> row.email, edad |-> row.edad,
               telefono |-> dict_get(row, "telefono"),
               created_at |-> datetime_or_None(row, "created_at"),
               updated_at |-> datetime_or_None(row, "updated_at")]>>)

\* A dict comes back from the store, not yet converted.
InitEntity ==
    /\ tabla = <<>>
    /\ nextId = 1
    /\ reloj = 0
    /\ clientes = NoClients
    /\ pc = [p \in Procs |-> "idle"]
    /\ loc = [p \in Procs |-> NoCall]
    /\ fin = NoFin
    /\ \E shape \in RawRows : ultimo = [op |-> "row", row |-> RawRow(shape)]

Call_to_entity ==
    /\ ultimo.op = "row"
    /\ ultimo' = [op |-> "_to_entity", row |-> ultimo.row,
                  out |-> Persona_to_entity(ultimo.row)]
    /\ UNCHANGED <<tabla, nextId, reloj, clientes, UseCaseVars>>

NextEntity == Call_to_entity

SpecEntity == InitEntity /\ [][NextEntity]_vars

(***************************************************************************)
(* Calls of get_supabase_client in one process                             *)
(***************************************************************************)
Call_get_supabase_client ==
    \E getter \in ClientGetters, outcome \in CreateClientOutcomes :
        LET out == get_supabase_client(getter, clientes, outcome)
        IN  /\ Len(clientes.calls) < MaxCalls
            /\ clientes' = ClientsAfter(getter, clientes, out)
            /\ ultimo' = [op |-> "get_supabase_client", getter |-> getter, out |-> out]
            /\ UNCHANGED <<tabla, nextId, reloj, UseCaseVars>>

NextClient == Call_get_supabase_client

SpecClient == Init /\ [][NextClient]_vars

(***************************************************************************)
(* conexion_supabase.py: the health probe behind GET /health               *)
(***************************************************************************)
\* Status codes of the REST response, on both sides of every branch.
ProbeStatuses == {199, 200, 299, 300, 401, 403, 404, 500}

\* cliente.get(url, ...) returns a response or raises (timeout, no route).
Probes ==
    { [kind |-> "response", status |-> s] : s \in ProbeStatuses }
        \cup { [kind |-> "raise", status |-> 0] }

\* How auth.get_user() and the query of get('demo') end.
CallOutcomes == {"return", "raise"}

\* Lines 27-32: resultado before the probe.  mensaje is the list of the
\* message parts put together.
ResultadoInicial ==
    [conexion |-> FALSE, codigo_estado |-> Null,
     autenticacion_exitosa |-> Null, mensaje |-> <<>>]

\* The message of the branch a status code takes (lines 40-59).
MensajeDeEstado(status) ==
    IF 200 <= status /\ status < 300 THEN "alcanzable"
    ELSE IF status = 401 THEN "api key invalida"
    ELSE IF status = 403 THEN "sin permisos"
    ELSE IF 400 <= status /\ status < 500 THEN "error del cliente"
    ELSE "error del servidor"

\* Lines 35-62: resultado after the REST probe.
TrasProbe(probe) ==
    IF probe.kind = "raise"
    THEN [ResultadoInicial EXCEPT !.mensaje = <<"error al contactar">>]
    ELSE [ResultadoInicial EXCEPT
            !.codigo_estado = Cell(probe.status),
            !.conexion = (200 <= probe.status /\ probe.status < 300),
            !.mensaje = <<MensajeDeEstado(probe.status)>>]

\* Line 65: whether the authentication check runs.
VerificaAuth(verificar, r) == verificar /\ r.conexion

\* Lines 65-78: resultado after the authentication check, given what
\* get_supabase_client returned and how auth.get_user() ended.
TrasAuth(r, cliente, auth) ==
    IF cliente.err # None
    THEN [r EXCEPT !.autenticacion_exitosa = Cell(FALSE),
                   !.mensaje = Append(@, "error al crear cliente")]
    ELSE IF auth = "raise"
    THEN [r EXCEPT !.autenticacion_exitosa = Cell(FALSE),
                   !.mensaje = Append(@, "verificacion fallo")]
    ELSE [r EXCEPT !.autenticacion_exitosa = Cell(TRUE),
                   !.mensaje = Append(@, "verificacion exitosa")]

\* Lines 80-82: `await get('demo')` stands outside every try, so what it
\* raises leaves conexion_supabase; otherwise resultado is returned.
TrasGet(r, cliente, query) ==
    IF cliente.err # None \/ query = "raise" THEN Raise("Exception") ELSE Ok(<<r>>)

\* conexion_supabase: the whole call, with the two get_supabase_client
\* calls it makes (line 67, and generic_crud.get's at its line 28).
Call_conexion_supabase ==
    \E verificar \in BOOLEAN, probe \in Probes, auth \in CallOutcomes,
       query \in CallOutcomes, o1 \in CreateClientOutcomes, o2 \in CreateClientOutcomes :
        LET r1 == TrasProbe(probe)
            va == VerificaAuth(verificar, r1)
            k1 == get_supabase_client("config", clientes, o1)
            c1 == IF va THEN ClientsAfter("config", clientes, k1) ELSE clientes
            r2 == IF va THEN TrasAuth(r1, k1, auth) ELSE r1
            k2 == get_supabase_client("config", c1, o2)
            c2 == ClientsAfter("config", c1, k2)
        IN  /\ Len(clientes.calls) + 2 <= MaxCalls
            /\ clientes' = c2
            /\ ultimo' = [op |-> "conexion_supabase", verificar |-> verificar,
                          probe |-> probe, out |-> TrasGet(r2, k2, query)]
            /\ UNCHANGED <<tabla, nextId, reloj, UseCaseVars>>

NextConexion == Call_conexion_supabase

SpecConexion == Init /\ [][NextConexion]_vars

(***************************************************************************)
(* Properties of the use cases                                             *)
(***************************************************************************)
MutatingOps == {"update", "delete", "g_update", "g_delete"}
UpdateOps == {"update", "g_update"}

RowsWithEmail(t, email) == SelectSeq(t, LAMBDA r : r.email = email)
Business(r) == [f \in BusinessFields |-> r[f]]

\* Request p takes the step that leaves phase `from` of its call.
Leaves(p, from) == pc[p] = from /\ pc'[p] # from

\* C1 (as claimed): a create whose email is already held by a row fails with
\* DuplicateKey before any insert is issued, and afterwards the store holds
\* exactly one row with that email.
C1_DuplicateLeavesOneRow ==
    [][\A p \in Procs :
        (/\ Leaves(p, "probe")
         /\ loc[p].op = "create"
         /\ RowsWithEmail(tabla, loc[p].data.email) # <<>>)
        => /\ pc'[p] = "idle"
           /\ fin'.err = "DuplicateKey"
           /\ fin'.writes = 0
           /\ tabla' = tabla
           /\ Len(RowsWithEmail(tabla', loc[p].data.email)) = 1]_vars

\* C2: an update or delete (Persona or generic use case) of an identifier
\* that has no row fails with NotFound, sends no mutating request, and leaves
\* the table as it was.
C2_MissingIdNotFound ==
    [][\A p \in Procs :
        (/\ Leaves(p, "probe")
         /\ loc[p].op \in MutatingOps
         /\ StoreSelectById(tabla, loc[p].id) = <<>>)
        => /\ pc'[p] = "idle"
           /\ fin'.by = p
           /\ fin'.err = "NotFound"
           /\ fin'.writes = 0
           /\ tabla' = tabla
           /\ nextId' = nextId]_vars

\* C2 witness: an update of a missing identifier has just failed while the
\* table holds other rows.
C2_Witness ==
    /\ fin.op = "update"
    /\ fin.err = "NotFound"
    /\ tabla # <<>>
    /\ StoreSelectById(tabla, fin.id) = <<>>

\* C3 (as claimed): when the row is deleted by another request between the
\* probe and the write, the update returns absence and the delete returns
\* false, no error is raised, and the table is not changed by the call.
C3_RaceIsSilentNoOp ==
    [][\A p \in Procs :
        (/\ Leaves(p, "write")
         /\ loc[p].op \in MutatingOps
         /\ StoreSelectById(tabla, loc[p].id) = <<>>)
        => /\ fin'.err = None
           /\ fin'.ret = <<>>
           /\ fin'.flag = FALSE
           /\ tabla' = tabla]_vars

C5_SameUpdateTwice ==
    (/\ fin.op \in UpdateOps
     /\ fin.err = None
     /\ fin.ret # <<>>
     /\ fin.prev # <<>>)
    => /\ Business(fin.ret[1]) = Business(fin.prev[1])
       /\ Business(StoreSelectById(tabla, fin.id)[1]) = Business(fin.prev[1])

\* C5 witness: the second of two equal Persona updates of edad has just
\* completed.
C5_Witness ==
    /\ fin.op = "update"
    /\ fin.err = None
    /\ fin.ret # <<>>
    /\ fin.prev # <<>>
    /\ DOMAIN fin.data = {"edad"}
    /\ fin.ret[1].edad = 19
    /\ fin.ret[1].telefono = "555"

(***************************************************************************)
(* Properties of the repository-level calls                                *)
(***************************************************************************)
\* The row at 0-based position pos when the table is read by descending id.
RowByIdDesc(t, pos) ==
    CHOOSE i \in DOMAIN t : Cardinality({ j \in DOMAIN t : t[j].id > t[i].id }) = pos

\* Rows a window (k, n) must hold over M rows.
WindowLen(k, n, M) == IF k >= M THEN 0 ELSE Min(k + n, M) - k

\* C6: with skip = k and limit = n, get_all of both repositories (no filter)
\* returns the rows at positions k .. min(k+n, M)-1 of the table's order, and
\* generic_crud.get those positions of the rows read by descending id; the
\* result is empty when k >= M and has at most one row when n = 1.
C6_Pagination ==
    (/\ ultimo.op \in {"Generic_get_all", "Persona_get_all", "Crud_get"}
     /\ ultimo.op # "Persona_get_all" => ultimo.filters = <<>>)
    => LET k   == ultimo.skip
           n   == ultimo.limit
           M   == Len(tabla)
           got == ultimo.out.data
       IN  /\ ultimo.out.err = None
           /\ Len(got) = WindowLen(k, n, M)
           /\ k >= M => got = <<>>
           /\ n = 1 => Len(got) <= 1
           /\ \A i \in DOMAIN got :
                CASE ultimo.op = "Generic_get_all" -> got[i] = tabla[k + i]
                  [] ultimo.op = "Persona_get_all" -> got[i] = _to_entity(tabla[k + i])
                  [] ultimo.op = "Crud_get" -> got[i] = tabla[RowByIdDesc(tabla, k + i - 1)]

\* C6 witness: generic_crud.get with offset 2 and limit 2 over three rows
\* has returned the one row left, that of the lowest id.
C6_Witness ==
    /\ ultimo.op = "Crud_get"
    /\ ultimo.skip = 2 /\ ultimo.limit = 2
    /\ Len(tabla) = 3
    /\ Len(ultimo.out.data) = 1
    /\ ultimo.out.data[1].id = 1

\* C7 (as claimed): for every filter expression get_all accepts, operator
\* mappings included, count(filters) succeeds and equals the number of rows
\* get_all returns for the same filters under a window that covers the table.
C7_CountMatchesGetAll ==
    ultimo.op = "Generic_count"
    => LET all == Generic_get_all(tabla, 0, DefaultLimit, ultimo.filters)
       IN  all.err = None
           => /\ ultimo.out.err = None
              /\ ultimo.out.count = Len(all.data)

\* What the claim's words ask of a row for one (field, value) pair.
Satisfies(r, pair) ==
    IF pair.value.kind = "scalar" THEN r[pair.key] = pair.value.val
    ELSE LET operator == pair.value.items[1].op
             operand  == pair.value.items[1].val.val
         IN  CASE operator = "$gt"    -> r[pair.key] > operand
               [] operator = "$gte"   -> r[pair.key] >= operand
               [] operator = "$lt"    -> r[pair.key] < operand
               [] operator = "$lte"   -> r[pair.key] <= operand
               [] operator = "$like"  -> Like(r[pair.key], operand)
               [] operator = "$ilike" -> ILike(r[pair.key], operand)

KnownOperators == {"$gt", "$gte", "$lt", "$lte", "$like", "$ilike"}

\* A scalar, or a single-entry mapping under one of the six operators.
IsPlainPair(pair) ==
    \/ pair.value.kind = "scalar"
    \/ /\ Len(pair.value.items) = 1
       /\ pair.value.items[1].op \in KnownOperators

\* C8: get_all (and generic_crud.get, for scalars) with one filter pair and a
\* window that covers the table returns exactly the rows whose field equals
\* the scalar, or satisfies the comparison or pattern of the operator mapping.
C8_FilterSemantics ==
    (/\ ultimo.op \in {"Generic_get_all", "Crud_get"}
     /\ Len(ultimo.filters) = 1
     /\ IsPlainPair(ultimo.filters[1])
     /\ ultimo.skip = 0 /\ ultimo.limit = DefaultLimit)
    => /\ ultimo.out.err = None
       /\ \A i \in DOMAIN tabla :
            Satisfies(tabla[i], ultimo.filters[1])
            <=> \E j \in DOMAIN ultimo.out.data : ultimo.out.data[j] = tabla[i]
       /\ \A j \in DOMAIN ultimo.out.data :
            \E i \in DOMAIN tabla : ultimo.out.data[j] = tabla[i]
       /\ Len(ultimo.out.data) =
            Cardinality({ i \in DOMAIN tabla : Satisfies(tabla[i], ultimo.filters[1]) })

\* C8 witness: {"edad": {"$gte": 18}} over rows with edad 17, 18 and 19 has
\* returned the two rows with edad 18 and 19.
C8_Witness ==
    /\ ultimo.op = "Generic_get_all"
    /\ ultimo.filters = FilterList[5]
    /\ ultimo.limit = DefaultLimit
    /\ { tabla[i].edad : i \in DOMAIN tabla } = {17, 18, 19}
    /\ { ultimo.out.data[j].edad : j \in DOMAIN ultimo.out.data } = {18, 19}

\* The filter without its pairs whose first operator is none of the six.
RECURSIVE WithoutUnknown(_)
WithoutUnknown(filters) ==
    IF filters = <<>> THEN <<>>
    ELSE LET v == filters[1].value
         IN  IF v.kind = "dict" /\ v.items # <<>> /\ v.items[1].op \notin KnownOperators
             THEN WithoutUnknown(Tail(filters))
             ELSE <<filters[1]>> \o WithoutUnknown(Tail(filters))

\* C9: a pair whose operator key is none of the six adds no predicate and
\* raises nothing: get_all returns what it returns with the pair removed.
C9_UnknownOperatorIgnored ==
    (/\ ultimo.op = "Generic_get_all"
     /\ WithoutUnknown(ultimo.filters) # ultimo.filters)
    => /\ ultimo.out.err = None
       /\ ultimo.out = Generic_get_all(tabla, ultimo.skip, ultimo.limit,
                                       WithoutUnknown(ultimo.filters))
       /\ WithoutUnknown(ultimo.filters) = <<>>
            => ultimo.out.data = StoreRange(tabla, ultimo.skip, ultimo.skip + ultimo.limit - 1)

\* C9 witness: {"edad": {"$ne": 18}} has returned a row whose edad is 18.
C9_Witness ==
    /\ ultimo.op = "Generic_get_all"
    /\ ultimo.filters = FilterList[11]
    /\ ultimo.out.err = None
    /\ \E j \in DOMAIN ultimo.out.data : ultimo.out.data[j].edad = 18

\* The error generic_crud.insert raises when the store returns no row.
StoreError == "Exception"

\* C10 (as claimed): create/insert of the Persona repository, the generic
\* repository and generic_crud return the inserted row with its identifier
\* when the store returns it, and raise the store error when it returns none.
C10_InsertRowOrStoreError ==
    ultimo.op \in {"Persona_create", "Generic_insert", "Crud_insert"}
    => IF ultimo.outcome = "row"
       THEN /\ ultimo.out.err = None
            /\ Len(ultimo.out.data) = 1
            /\ ultimo.out.data[1].id = IF ultimo.op = "Persona_create"
                                        THEN str(nextId - 1) ELSE nextId - 1
       ELSE ultimo.out.err = StoreError

(***************************************************************************)
(* Properties of the row-scoped repository calls                           *)
(***************************************************************************)
RowReadOrUpdate == {"Persona_get_by_id", "Persona_update", "Generic_update", "Crud_update"}

\* C11 (as claimed): get_by_id and update of the repositories, and
\* generic_crud.update, return absence and raise nothing when the identifier
\* matches no row, and leave the table as it was.
C11_NoRowIsAbsence ==
    [][(/\ ultimo'.op \in RowReadOrUpdate
        /\ StoreSelectById(tabla, ultimo'.id) = <<>>)
       => /\ ultimo'.out.err = None
          /\ ultimo'.out.data = <<>>
          /\ tabla' = tabla]_vars

(***************************************************************************)
(* Properties of the reads and deletes by identifier                       *)
(***************************************************************************)
ReadOps == {"get", "g_get"}

\* C12: GetPersonaUseCase.execute and GenericCRUDUseCase.get_by_id fail with
\* NotFound exactly when no row has the identifier; otherwise they return
\* that row's identifier and business fields as stored, and in both cases
\* send no write and leave the table as it was.
C12_ReadById ==
    [][\A p \in Procs :
        (Leaves(p, "probe") /\ loc[p].op \in ReadOps)
        => LET rows == StoreSelectById(tabla, loc[p].id)
           IN  /\ tabla' = tabla
               /\ nextId' = nextId
               /\ fin'.writes = 0
               /\ (fin'.err = "NotFound") <=> (rows = <<>>)
               /\ rows # <<>>
                    => /\ fin'.err = None
                       /\ Len(fin'.ret) = 1
                       /\ Business(fin'.ret[1]) = Business(rows[1])
                       /\ fin'.ret[1].id = IF loc[p].op = "get" THEN loc[p].id
                                           ELSE ParseInt(loc[p].id)]_vars

\* C12 witness: GetPersonaUseCase.execute("2") has returned the second of
\* two rows.
C12_Witness ==
    /\ fin.op = "get"
    /\ fin.err = None
    /\ Len(tabla) = 2
    /\ fin.id = str(2)
    /\ fin.ret # <<>>
    /\ fin.ret[1].id = str(2)
    /\ fin.ret[1].email = tabla[2].email

DeleteOps == {"delete", "g_delete"}

\* C13: the repository delete an orchestrator delete reaches after its probe
\* removes the rows with that identifier and no other row, and the call
\* returns true exactly when a row was removed, false when none matched.
C13_DeleteRemovesThatRow ==
    [][\A p \in Procs :
        (Leaves(p, "write") /\ loc[p].op \in DeleteOps)
        => LET n      == ParseInt(loc[p].id)
               hit    == { i \in DOMAIN tabla : tabla[i].id = n }
           IN  /\ tabla' = SelectSeq(tabla, LAMBDA r : r.id # n)
               /\ Len(tabla') = Len(tabla) - Cardinality(hit)
               /\ \A i \in DOMAIN tabla' : tabla'[i].id # n
               /\ fin'.err = None
               /\ fin'.flag = (hit # {})]_vars

\* C13 witness: a Persona delete has returned true and another row is still
\* in the table.
C13_Witness ==
    /\ fin.op = "delete"
    /\ fin.err = None
    /\ fin.flag = TRUE
    /\ tabla # <<>>
    /\ StoreSelectById(tabla, fin.id) = <<>>

RowUpdates == {"Persona_update", "Generic_update", "Crud_update"}

\* C14 (as claimed): after every create, update and delete no two rows have
\* the same identifier, and an update leaves every row's identifier as it was.
C14_IdUniqueAndImmutable ==
    [][/\ \A i, j \in DOMAIN tabla' : i # j => tabla'[i].id # tabla'[j].id
       /\ ultimo'.op \in RowUpdates
            => /\ Len(tabla') = Len(tabla)
               /\ \A i \in DOMAIN tabla : tabla'[i].id = tabla[i].id]_vars

(***************************************************************************)
(* Properties of generic_crud's timestamps and soft delete                 *)
(***************************************************************************)
CrudWrites == {"Crud_update", "Crud_soft_delete"}

\* C15 (as claimed): an update or soft_delete of generic_crud leaves every
\* row's fecha_creado as it was, and sets fecha_edit of the row it matched to
\* the time of the call, which is not before the row's fecha_creado.
C15_TimestampsKept ==
    [][ultimo'.op \in CrudWrites
       => /\ Len(tabla') = Len(tabla)
          /\ \A i \in DOMAIN tabla :
                /\ tabla'[i].fecha_creado = tabla[i].fecha_creado
                /\ IdMatches(tabla[i], ultimo'.id)
                     => /\ tabla'[i].fecha_edit = reloj
                        /\ tabla'[i].fecha_edit >= tabla'[i].fecha_creado]_vars

\* Columns soft_delete may touch: estado, fecha_edit, and the store's own
\* updated_at.
SoftDeleteColumns == {"estado", "fecha_edit", "updated_at"}

\* C16: soft_delete of an existing row removes no row, sets that row's estado
\* to 'inactivo' (again when it already was), leaves its other business
\* fields and its identifier as they were, changes no other row, and returns
\* the row.
C16_SoftDelete ==
    [][(/\ ultimo'.op = "Crud_soft_delete"
        /\ StoreSelectById(tabla, ultimo'.id) # <<>>)
       => /\ Len(tabla') = Len(tabla)
          /\ \A i \in DOMAIN tabla :
                IF IdMatches(tabla[i], ultimo'.id)
                THEN /\ tabla'[i].estado = "inactivo"
                     /\ \A c \in Columns \ SoftDeleteColumns : tabla'[i][c] = tabla[i][c]
                ELSE tabla'[i] = tabla[i]
          /\ ultimo'.out.err = None
          /\ ultimo'.out.data = StoreSelectById(tabla', ultimo'.id)]_vars

\* C16 witness: soft_delete has been called on a row that was 'inactivo'
\* already, in a table where another row is still 'activo' or has no estado.
C16_Witness ==
    /\ ultimo.op = "Crud_soft_delete"
    /\ ultimo.out.err = None
    /\ Len(tabla) >= 2
    /\ \E i \in DOMAIN tabla :
          /\ IdMatches(tabla[i], ultimo.id)
          /\ tabla[i].estado = "inactivo"
          /\ tabla[i].edad = 19
    /\ \E j \in DOMAIN tabla : tabla[j].estado # "inactivo"

(***************************************************************************)
(* Properties of the row-to-entity conversion                              *)
(***************************************************************************)
\* The fields a Persona must have a value for.
RequiredFields == {"id", "nombre", "apellido", "email", "edad"}

LacksRequired(row) ==
    \E c \in RequiredFields : c \notin DOMAIN row \/ row[c] = Null

\* C17: _to_entity raises for every row in which a required field is missing
\* or null.
C17_RequiredOrError ==
    (ultimo.op = "_to_entity" /\ LacksRequired(ultimo.row))
        => ultimo.out.err # None

(***************************************************************************)
(* Properties of get_supabase_client                                       *)
(***************************************************************************)
\* The clients one definition of get_supabase_client has returned so far.
ClientsReturned(getter) ==
    { clientes.calls[i].out.data[1] :
        i \in { k \in DOMAIN clientes.calls :
                  /\ clientes.calls[k].getter = getter
                  /\ clientes.calls[k].out.err = None } }

\* C18: whatever the number of calls, each definition of get_supabase_client
\* has built at most one client and has returned that one client every time.
C18_OneClient ==
    \A getter \in ClientGetters : Cardinality(ClientsReturned(getter)) <= 1

(***************************************************************************)
(* Properties of conexion_supabase                                         *)
(***************************************************************************)
ResultadoKeys == {"conexion", "codigo_estado", "autenticacion_exitosa", "mensaje"}

Is2xx(probe) == probe.kind = "response" /\ probe.status \in 200..299

\* What the mapping conexion_supabase returns must say about its inputs.
ResultadoFiel(r, verificar, probe) ==
    /\ DOMAIN r = ResultadoKeys
    /\ r.conexion <=> Is2xx(probe)
    /\ r.autenticacion_exitosa # Null => (verificar /\ r.conexion)

\* C19: whatever the REST probe and the later store calls do,
\* conexion_supabase returns a mapping with the four keys, conexion true
\* exactly for a 2xx status, and autenticacion_exitosa non-null only when
\* the check was asked for and conexion is true.
C19_AlwaysAMapping ==
    ultimo.op = "conexion_supabase"
        => /\ ultimo.out.err = None
           /\ ResultadoFiel(ultimo.out.data[1], ultimo.verificar, ultimo.probe)

(***************************************************************************)
(* Properties of operator mappings with several keys                       *)
(***************************************************************************)
HasSeveralKeys(filters) ==
    \E p \in DOMAIN filters :
        filters[p].value.kind = "dict" /\ Len(filters[p].value.items) > 1

\* The filter with every operator mapping cut down to its first key.
FirstKeyOnly(filters) ==
    [p \in DOMAIN filters |->
        IF filters[p].value.kind = "dict" /\ Len(filters[p].value.items) > 1
        THEN Pair(filters[p].key, Dict(<<filters[p].value.items[1]>>))
        ELSE filters[p]]

\* C20: for an operator mapping with more than one key, get_all returns what
\* it returns for the mapping cut down to its first key; with one such pair
\* and a window that covers the table, these are exactly the rows that
\* satisfy the first key's predicate.
C20_FirstKeyOnly ==
    (/\ ultimo.op = "Generic_get_all"
     /\ HasSeveralKeys(ultimo.filters))
    => /\ ultimo.out.err = None
       /\ ultimo.out = Generic_get_all(tabla, ultimo.skip, ultimo.limit,
                                       FirstKeyOnly(ultimo.filters))
       /\ (Len(ultimo.filters) = 1 /\ ultimo.limit = DefaultLimit)
            => \A i \in DOMAIN tabla :
                 Satisfies(tabla[i], ultimo.filters[1])
                 <=> \E j \in DOMAIN ultimo.out.data : ultimo.out.data[j] = tabla[i]

\* C20 witness: {"edad": {"$gt": 17, "$lt": 19}} over rows with edad 17, 18
\* and 19 has returned the rows with edad 18 and 19: "$lt" 19 was not applied.
C20_Witness ==
    /\ ultimo.op = "Generic_get_all"
    /\ ultimo.filters = FilterList[14]
    /\ ultimo.limit = DefaultLimit
    /\ { tabla[i].edad : i \in DOMAIN tabla } = {17, 18, 19}
    /\ { ultimo.out.data[j].edad : j \in DOMAIN ultimo.out.data } = {18, 19}

(***************************************************************************)
(* Properties of overlapping use-case calls                                *)
(***************************************************************************)
\* C21 (as claimed): however creates that carry the same email interleave,
\* a create that reaches its write while a row already holds its email fails
\* with DuplicateKey and inserts nothing, so that no email is ever held by
\* more than one row after a create.
C21_ConcurrentCreatesOneRow ==
    [][\A p \in Procs :
        (/\ Leaves(p, "write")
         /\ loc[p].op = "create"
         /\ RowsWithEmail(tabla, loc[p].data.email) # <<>>)
        => /\ fin'.err = "DuplicateKey"
           /\ tabla' = tabla
           /\ Len(RowsWithEmail(tabla', loc[p].data.email)) <= 1]_vars

\* C22: the write of a Persona update sets every business field its payload
\* leaves out to the value its own probe read, whatever the row holds by
\* then: a field another update wrote between this call's probe and its
\* write goes back to the value it had before.
C22_LaterWriteRestores ==
    [][\A p \in Procs :
        (/\ Leaves(p, "write")
         /\ loc[p].op = "update"
         /\ StoreSelectById(tabla, loc[p].id) # <<>>)
        => LET probe == loc[p].existing[1]
               after == StoreSelectById(tabla', loc[p].id)[1]
           IN  /\ \A f \in BusinessFields \ DOMAIN loc[p].data : after[f] = probe[f]
               /\ \A f \in DOMAIN loc[p].data : after[f] = loc[p].data[f]
               /\ fin'.err = None]_vars

\* C22 witness: an update of email alone has just completed on a row whose
\* edad another update had set to 19 after this call's probe; the row is back
\* at edad 18 and carries the new email: one of the two updates is gone.
C22_Witness ==
    /\ fin.op = "update"
    /\ fin.err = None
    /\ fin.data = [email |-> "a@x"]
    /\ fin.before # <<>>
    /\ fin.before[1].edad = 19
    /\ fin.before[1].email = "b@x"
    /\ StoreSelectById(tabla, fin.id) # <<>>
    /\ StoreSelectById(tabla, fin.id)[1].edad = 18
    /\ StoreSelectById(tabla, fin.id)[1].email = "a@x"

(***************************************************************************)
(* Properties of sequences of use-case calls                               *)
(***************************************************************************)
EmailsDistinct(t) ==
    \A i, j \in DOMAIN t : t[i].email = t[j].email => i = j

PersonaOps == {"create", "update", "delete"}

\* C23 (as claimed): made one after the other from an empty table, no
\* Persona create, update or delete takes a table in which no two rows have
\* the same email to one in which two rows do; in particular not an update
\* whose payload sets email to a value another row holds.
C23_EmailsStayDistinct ==
    [][\A p \in Procs :
        (/\ Leaves(p, "write")
         /\ loc[p].op \in PersonaOps
         /\ EmailsDistinct(tabla))
        => EmailsDistinct(tabla')]_vars

(***************************************************************************)
(* Properties of empty operator mappings                                   *)
(***************************************************************************)
HasEmptyMapping(filters) ==
    \E p \in DOMAIN filters :
        filters[p].value.kind = "dict" /\ filters[p].value.items = <<>>

\* The error of list(value.keys())[0] on an empty mapping.
TranslationError == "IndexError"

\* C24: get_all with a filter in which some field's value is an empty
\* mapping raises the translation error and returns no rows, whatever the
\* table holds and whatever the other pairs are; the error is not one of the
\* store, which is sent nothing.
C24_EmptyMappingRaises ==
    (/\ ultimo.op = "Generic_get_all"
     /\ HasEmptyMapping(ultimo.filters))
    => /\ ultimo.out.err = TranslationError
       /\ ultimo.out.data = <<>>
       /\ ultimo.out = GetAllFilters(ultimo.filters)

\* C24 witness: {"apellido": "Paz", "edad": {}} has raised over a table that
\* holds a row with apellido Paz.
C24_Witness ==
    /\ ultimo.op = "Generic_get_all"
    /\ ultimo.filters = FilterList[16]
    /\ ultimo.out.err = TranslationError
    /\ \E i \in DOMAIN tabla : tabla[i].apellido = "Paz"

(***************************************************************************)
(* Properties of the reads of generic_crud after soft_delete               *)
(***************************************************************************)
ConstrainsEstado(filters) == \E p \in DOMAIN filters : filters[p].key = "estado"

\* The filters of the model that say nothing about estado.
EstadoFreeFilters ==
    { CrudFilterList[f] : f \in { g \in DOMAIN CrudFilterList :
                                    ~ConstrainsEstado(CrudFilterList[g]) } }

\* The rows whose fields equal the values of every pair, whatever their estado.
Matching(t, filters) ==
    SelectSeq(t, LAMBDA r : \A p \in DOMAIN filters : Satisfies(r, filters[p]))

\* C25: a successful soft_delete changes count under no filter that leaves
\* estado out; and get and count under such a filter return, respectively
\* count, every row whose fields match the filter, the rows whose estado is
\* 'inactivo' included.
C25_SoftDeletedStillSeen ==
    [][/\ (ultimo'.op = "Crud_soft_delete" /\ ultimo'.out.err = None)
          => /\ \A f \in EstadoFreeFilters : Crud_count(tabla', f) = Crud_count(tabla, f)
             /\ Crud_count(tabla', <<>>).count = Len(tabla)
       /\ (ultimo'.op = "Crud_count" /\ ~ConstrainsEstado(ultimo'.filters))
          => /\ ultimo'.out.err = None
             /\ ultimo'.out.count = Len(Matching(tabla, ultimo'.filters))
       /\ (ultimo'.op = "Crud_get" /\ ~ConstrainsEstado(ultimo'.filters))
          => /\ ultimo'.out.err = None
             /\ Len(ultimo'.out.data) = Len(Matching(tabla, ultimo'.filters))
             /\ \A i \in DOMAIN tabla :
                   (\A p \in DOMAIN ultimo'.filters : Satisfies(tabla[i], ultimo'.filters[p]))
                   => \E j \in DOMAIN ultimo'.out.data : ultimo'.out.data[j] = tabla[i]]_vars

\* C25 witness: count without a filter has returned the number of rows of a
\* table of two rows or more in which every row is 'inactivo'.
C25_Witness ==
    /\ ultimo.op = "Crud_count"
    /\ ultimo.filters = <<>>
    /\ Len(tabla) >= 2
    /\ \A i \in DOMAIN tabla : tabla[i].estado = "inactivo"
    /\ ultimo.out.count = Len(tabla)
====
